---- MODULE Spec2Model ----
(***************************************************************************)
(* Model of packages/framework/network/index.js: the Network dispatcher    *)
(* (any / doRequest / tryRequest) driving wx.request for one logical       *)
(* request, and the AttachResponse chain (then / catch / showLoading /     *)
(* complete / merge / try) wrapped around the request's promise.           *)
(***************************************************************************)
EXTENDS Integers, Sequences, FiniteSets, TLC

\* ------------------------------------------------------------------ bounds
\* largest `max` argument passed to try(max, errorAssert)
MaxTryArg == 2
\* number of try(...) calls made on the chain
MaxTryCalls == 2
\* number of continuations attached to the chain
MaxChain == 2
\* number of merge calls that throw
MaxUsageErrors == 1
\* number of continuations attached by merge
MaxMerges == 2
\* number of parts a request uri is made of
MaxUriLen == 3

\* ------------------------------------------------------------- value space
\* status codes the host primitive answers with
Statuses == {200, 304, 500}
\* promises handed to merge(promise, name)
Others == {1}
\* property names handed to merge(promise, name)
Names == {"original", "extra"}
\* keys of the contextResult accumulator
Keys == {"original", "extra"}
\* what the caller passes as errorAssert to try(max, errorAssert)
AssertArgs == {"undefined", "notStatus200", "notCallable"}

\* the pieces uris are made of; a uri is a sequence of them
UriParts == {"https:", "http:", "/orders", "?next="}
\* the uris handed to any(uri, data, method, headers)
Uris == UNION {[1..n -> UriParts] : n \in 1..MaxUriLen}
\* Options.baseUri: not configured, or https://api.x/
BaseUris == {<<>>, <<"https:", "//api.x/">>}
\* the uri of the requests whose target is not looked at
DefaultUri == <<"/orders">>

Val(kind, n, code) == [kind |-> kind, n |-> n, code |-> code]
Undefined == Val("undefined", 0, 0)
\* the response object wx.request hands to success on attempt number id
Response(id, statusCode) == Val("response", id, statusCode)
\* the error object wx.request hands to fail on attempt number id
HostError(id) == Val("fail", id, 0)
\* what a caller's error handler returns
Handled == Val("handled", 0, 0)
\* an empty result ('' or 0) returned by a caller's success handler
Empty == Val("empty", 0, 0)
\* the contextResult object itself (held by reference)
ContextResultRef == Val("contextResult", 0, 0)
OtherValue(p) == Val("otherValue", p, 0)
OtherReason(p) == Val("otherReason", p, 0)

VARIABLES
    Options,        \* module-level Options (only the fields read here)
    pc,             \* "idle" before any(...) is called, "called" after
    context,        \* the request context built by any(...)
    inflight,       \* wx.request invocations whose callback has not run
    hostCalls,      \* number of wx.request invocations
    resolveCalls,   \* number of invocations of the executor's resolve
    rejectCalls,    \* number of invocations of the executor's reject
    promise,        \* the promise created in any(...)
    trace,          \* emitter.emit calls, host invocations, resolve/reject
    chain,          \* promises derived by AttachResponse, this.promise last
    contextResult,  \* AttachResponse.contextResult
    other,          \* the promises handed to merge
    attached,       \* per other promise: continuations attached by merge
    usageErrors,    \* Errors thrown synchronously by merge
    loadingCalls,   \* invocations of Options.loading
    tryCalls        \* try(...) calls made so far

vars == <<Options, pc, context, inflight, hostCalls, resolveCalls, rejectCalls,
          promise, trace, chain, contextResult, other, attached, usageErrors,
          loadingCalls, tryCalls>>

dispatchVars == <<context, inflight, hostCalls, resolveCalls, rejectCalls,
                  promise, tryCalls>>
chainVars == <<chain, contextResult, attached, usageErrors, loadingCalls>>

Pending == [state |-> "pending", value |-> Undefined]
Settled(p) == p.state \in {"fulfilled", "rejected"}

\* a Promise settles once: resolve/reject on a settled promise is a no-op
Settle(p, state, value) ==
    IF p.state = "pending" THEN [state |-> state, value |-> value] ELSE p

Emit(name, by, value) == [ev |-> name, by |-> by, val |-> value]

\* ------------------------------------------------------------------- Init
Init ==
    /\ Options = [loading |-> FALSE, baseUri |-> <<>>]
    /\ pc = "idle"
    /\ context = [assert |-> "defaultAssert", useTry |-> FALSE, tryMax |-> 0,
                  uri |-> <<>>]
    /\ inflight = {}
    /\ hostCalls = 0
    /\ resolveCalls = 0
    /\ rejectCalls = 0
    /\ promise = Pending
    /\ trace = <<>>
    /\ chain = <<>>
    /\ contextResult = [k \in Keys |-> Undefined]
    /\ other = [p \in Others |-> Pending]
    /\ attached = [p \in Others |-> 0]
    /\ usageErrors = 0
    /\ loadingCalls = 0
    /\ tryCalls = 0

\* --------------------------------------------------------------- Network
\* Network.config(options): Options.loading is a function or is not, and
\* Options.baseUri
config(loadingIsFunction, baseUri) ==
    /\ pc = "idle"
    /\ Options' = [loading |-> loadingIsFunction, baseUri |-> baseUri]
    /\ UNCHANGED <<pc, trace, other>>
    /\ UNCHANGED dispatchVars
    /\ UNCHANGED chainVars

\* context.assert(response): defaultAssert, or the predicate of the doc
\* comment of try, function(response){ return response.status != 200 }
assert(name, response) ==
    IF name = "defaultAssert" THEN FALSE ELSE response.code # 200

\* isOK without the 304 case
isOKWithout304(statusCode) == statusCode >= 200 /\ statusCode < 300

\* isOK of the success callback
isOK(statusCode) == (statusCode >= 200 /\ statusCode < 300) \/ statusCode = 304

\* /(https:|http:)/.test(uri)
hasScheme(uri) == \E i \in 1..Len(uri) : uri[i] \in {"https:", "http:"}

\* combine(uri, method, data)
combine(uri) ==
    IF ~hasScheme(uri) /\ Options.baseUri # <<>>
    THEN Options.baseUri \o uri
    ELSE uri

\* the wx.request invocation of doRequest(context, resolve, reject, tryProcess);
\* resolve and reject name the executor function each parameter is bound to
doRequest(ctx, resolve, reject, tryProcess) ==
    [id |-> hostCalls + 1, tryProcess |-> tryProcess,
     resolve |-> resolve, reject |-> reject, url |-> combine(ctx.uri)]

\* needTry with the comparison off by one
needTryInclusive(tryProcess) == context.useTry /\ tryProcess <= context.tryMax

\* needTry of tryRequest
needTry(tryProcess) == context.useTry /\ tryProcess < context.tryMax

\* tryRequest handing resolve and reject on in the order it received them
tryRequestSwapped(a) == doRequest(context, a.reject, a.resolve, a.tryProcess + 1)

\* tryRequest() skipping a value of the attempt counter
tryRequestSkips(a) == doRequest(context, a.resolve, a.reject, a.tryProcess + 2)

\* tryRequest = this.tryRequest.bind(this, context, reject, resolve, tryProcess),
\* which calls this.doRequest(context, resolve, reject, ++tryProcess)
tryRequest(a) == doRequest(context, a.resolve, a.reject, a.tryProcess + 1)

\* the trace entry of a wx.request invocation
Request(a) == Emit("request", "host", Val("attempt", a.id, a.tryProcess))

\* any starting the first attempt before it emits start
anyStartsLate(uri) ==
    /\ pc = "idle"
    /\ pc' = "called"
    /\ context' = [assert |-> "defaultAssert", useTry |-> FALSE, tryMax |-> 0,
                   uri |-> uri]
    /\ promise' = Pending
    /\ inflight' = {doRequest(context', "resolve", "reject", 0)}
    /\ hostCalls' = hostCalls + 1
    /\ trace' = trace \o <<Request(doRequest(context', "resolve", "reject", 0)),
                           Emit("start", "dispatcher", Undefined)>>
    /\ UNCHANGED <<Options, resolveCalls, rejectCalls, other, tryCalls>>
    /\ UNCHANGED chainVars

\* Network.any(uri, data, method, headers)
any(uri) ==
    /\ pc = "idle"
    /\ pc' = "called"
    /\ context' = [assert |-> "defaultAssert", useTry |-> FALSE, tryMax |-> 0,
                   uri |-> uri]
    /\ promise' = Pending
    /\ inflight' = {doRequest(context', "resolve", "reject", 0)}
    /\ hostCalls' = hostCalls + 1
    /\ trace' = trace \o <<Emit("start", "dispatcher", Undefined),
                           Request(doRequest(context', "resolve", "reject", 0))>>
    /\ UNCHANGED <<Options, resolveCalls, rejectCalls, other, tryCalls>>
    /\ UNCHANGED chainVars

\* ------------------------------------------------------- promise reactions
\* the promise a continuation was derived from: this.promise at the time
Pred(i) ==
    IF i = 1 THEN promise
    ELSE [state |-> chain[i - 1].state, value |-> chain[i - 1].value]

\* a promise reaction job is queued for continuation i
Runnable(i) ==
    \/ chain[i].state = "pending" /\ Settled(Pred(i))
    \/ chain[i].state = "waiting" /\ Settled(other[chain[i].p])

\* host callbacks are tasks: they run only when no reaction job is queued
MicrotaskPending == \E i \in 1..Len(chain) : Runnable(i)

\* ------------------------------------------------- wx.request callbacks
\* a callback that rejects before it asks tryRequest() for a retry
RetriedAfterReject(a, emitted) ==
    /\ inflight' = (inflight \ {a}) \cup {tryRequest(a)}
    /\ hostCalls' = hostCalls + 1
    /\ trace' = emitted \o <<Request(tryRequest(a))>>
    /\ promise' = Settle(promise, "rejected", HostError(a.id))
    /\ rejectCalls' = rejectCalls + 1
    /\ UNCHANGED resolveCalls

\* a retry issued while the answered attempt stays outstanding
RetriedConcurrently(a, emitted) ==
    /\ inflight' = inflight \cup {tryRequest(a)}
    /\ hostCalls' = hostCalls + 1
    /\ trace' = emitted \o <<Request(tryRequest(a))>>
    /\ UNCHANGED <<promise, resolveCalls, rejectCalls>>

\* a retry that also reports an error
RetriedWithError(a, emitted) ==
    /\ inflight' = (inflight \ {a}) \cup {tryRequest(a)}
    /\ hostCalls' = hostCalls + 1
    /\ trace' = emitted \o <<Emit("error", "dispatcher", Val("attempt", a.id, 0)),
                             Request(tryRequest(a))>>
    /\ UNCHANGED <<promise, resolveCalls, rejectCalls>>

\* the attempt's callback issues the next attempt (tryRequest() returned true)
Retried(a, emitted) ==
    /\ inflight' = (inflight \ {a}) \cup {tryRequest(a)}
    /\ hostCalls' = hostCalls + 1
    /\ trace' = emitted \o <<Request(tryRequest(a))>>
    /\ UNCHANGED <<promise, resolveCalls, rejectCalls>>

\* an executor function that drops the call
CalledLost(fn, value) ==
    UNCHANGED <<promise, resolveCalls, rejectCalls>>

\* one of the executor's functions is called with a value
Called(fn, value) ==
    /\ promise' = Settle(promise,
                         IF fn = "resolve" THEN "fulfilled" ELSE "rejected", value)
    /\ resolveCalls' = resolveCalls + (IF fn = "resolve" THEN 1 ELSE 0)
    /\ rejectCalls' = rejectCalls + (IF fn = "reject" THEN 1 ELSE 0)

\* success: (response) => { ... } of doRequest
success(a, statusCode) ==
    /\ a \in inflight
    /\ ~MicrotaskPending
    /\ LET response == Response(a.id, statusCode)
           tryAssert == context.useTry /\ assert(context.assert, response)
           emitted == trace \o <<Emit("end", "dispatcher", response),
                                 Emit("response", "dispatcher", response)>>
       IN  IF isOK(statusCode) /\ ~tryAssert
           THEN /\ Called(a.resolve, response)
                /\ inflight' = inflight \ {a}
                /\ trace' = emitted \o <<Emit(a.resolve, "dispatcher", response)>>
                /\ UNCHANGED hostCalls
           ELSE IF needTry(a.tryProcess)
           THEN Retried(a, emitted)
           ELSE /\ Called(a.reject, response)
                /\ inflight' = inflight \ {a}
                /\ trace' = emitted \o <<Emit(a.reject, "dispatcher", response),
                                         Emit("error", "dispatcher", response)>>
                /\ UNCHANGED hostCalls
    /\ UNCHANGED <<Options, pc, context, other, tryCalls>>
    /\ UNCHANGED chainVars

\* a fail callback that rejects before it emits
failRejectsFirst(a) ==
    /\ a \in inflight
    /\ ~MicrotaskPending
    /\ LET error == HostError(a.id)
       IN  IF needTry(a.tryProcess)
           THEN Retried(a, trace)
           ELSE /\ Called(a.reject, error)
                /\ inflight' = inflight \ {a}
                /\ trace' = trace \o <<Emit(a.reject, "dispatcher", error),
                                       Emit("error", "dispatcher", error),
                                       Emit("end", "dispatcher", error)>>
                /\ UNCHANGED hostCalls
    /\ UNCHANGED <<Options, pc, context, other, tryCalls>>
    /\ UNCHANGED chainVars

\* fail: (error) => { ... } of doRequest
fail(a) ==
    /\ a \in inflight
    /\ ~MicrotaskPending
    /\ LET error == HostError(a.id)
       IN  IF needTry(a.tryProcess)
           THEN Retried(a, trace)
           ELSE /\ Called(a.reject, error)
                /\ inflight' = inflight \ {a}
                /\ trace' = trace \o <<Emit("end", "dispatcher", error),
                                       Emit("error", "dispatcher", error),
                                       Emit(a.reject, "dispatcher", error)>>
                /\ UNCHANGED hostCalls
    /\ UNCHANGED <<Options, pc, context, other, tryCalls>>
    /\ UNCHANGED chainVars

\* ------------------------------------------------------- AttachResponse
\* Type.isFunction taking every supplied value for a function
isFunctionLoose(errorAssert) == errorAssert # "undefined"

\* Type.isFunction(errorAssert)
isFunction(errorAssert) == errorAssert = "notStatus200"

\* a try that dispatches the request again when no attempt is outstanding
tryRedispatches(max, errorAssert) ==
    /\ pc = "called"
    /\ tryCalls < MaxTryCalls
    /\ tryCalls' = tryCalls + 1
    /\ context' = [context EXCEPT
                       !.useTry = TRUE,
                       !.tryMax = max,
                       !.assert = IF isFunction(errorAssert)
                                  THEN errorAssert ELSE context.assert]
    /\ inflight' = IF inflight = {} /\ max > 0
                   THEN {doRequest(context, "resolve", "reject", 0)}
                   ELSE inflight
    /\ hostCalls' = hostCalls + Cardinality(inflight' \ inflight)
    /\ UNCHANGED <<Options, pc, resolveCalls, rejectCalls,
                   promise, trace, other>>
    /\ UNCHANGED chainVars

\* AttachResponse.try(max = 1, errorAssert)
try(max, errorAssert) ==
    /\ pc = "called"
    /\ tryCalls < MaxTryCalls
    /\ tryCalls' = tryCalls + 1
    /\ context' = [context EXCEPT
                       !.useTry = TRUE,
                       !.tryMax = max,
                       !.assert = IF isFunction(errorAssert)
                                  THEN errorAssert ELSE context.assert]
    /\ UNCHANGED <<Options, pc, inflight, hostCalls, resolveCalls, rejectCalls,
                   promise, trace, other>>
    /\ UNCHANGED chainVars

\* a continuation derived by this.promise.then(...) / this.promise.catch(...)
Link(via, onFulfilled, onRejected, token, p, name) ==
    [via |-> via, success |-> onFulfilled, error |-> onRejected,
     token |-> token, p |-> p, name |-> name,
     state |-> "pending", value |-> Undefined,
     called |-> "none", arg |-> Undefined, cb |-> 0]

\* this.promise = this.promise.then(success, errorWrapper)
then(onSuccess, onError) ==
    /\ pc = "called"
    /\ Len(chain) < MaxChain
    /\ chain' = Append(chain, Link("then", onSuccess, onError, FALSE, 0, ""))
    /\ UNCHANGED <<Options, pc, trace, other, contextResult, attached,
                   usageErrors, loadingCalls>>
    /\ UNCHANGED dispatchVars

\* AttachResponse.catch(...params)
catch ==
    /\ pc = "called"
    /\ Len(chain) < MaxChain
    /\ chain' = Append(chain, Link("catch", "undefined", "onError", FALSE, 0, ""))
    /\ UNCHANGED <<Options, pc, trace, other, contextResult, attached,
                   usageErrors, loadingCalls>>
    /\ UNCHANGED dispatchVars

\* complete registering its callback for the success path only
completeLinkSuccessOnly(token) ==
    Link("then", "onlyCallback", "undefined", token, 0, "")

\* the continuation complete(callback) attaches: this.then(onlyCallback, onlyCallback)
completeLink(token) == Link("then", "onlyCallback", "onlyCallback", token, 0, "")

\* AttachResponse.complete(callback)
complete ==
    /\ pc = "called"
    /\ Len(chain) < MaxChain
    /\ chain' = Append(chain, completeLink(FALSE))
    /\ UNCHANGED <<Options, pc, trace, other, contextResult, attached,
                   usageErrors, loadingCalls>>
    /\ UNCHANGED dispatchVars

\* AttachResponse.showLoading(message, duration = 1)
showLoading ==
    /\ pc = "called"
    /\ Len(chain) < MaxChain
    /\ IF Options.loading
       THEN /\ loadingCalls' = loadingCalls + 1
            /\ chain' = Append(chain, completeLink(TRUE))
       ELSE UNCHANGED <<loadingCalls, chain>>
    /\ UNCHANGED <<Options, pc, trace, other, contextResult, attached, usageErrors>>
    /\ UNCHANGED dispatchVars

\* merge without its check of the reserved name
mergeNeverThrows(name) == FALSE

\* the guard of merge: name === 'original' throws
mergeThrows(name) == name = "original"

\* the continuations attached by merge so far
Merges == {i \in 1..Len(chain) : chain[i].success = "mergeCb"}

\* AttachResponse.merge(promise, name)
merge(p, name) ==
    /\ pc = "called"
    /\ IF mergeThrows(name)
       THEN usageErrors < MaxUsageErrors
       ELSE Cardinality(Merges) < MaxMerges
    /\ IF mergeThrows(name)
       THEN /\ usageErrors' = usageErrors + 1
            /\ UNCHANGED chain
       ELSE /\ chain' = Append(chain, Link("then", "mergeCb", "undefined", FALSE, p, name))
            /\ UNCHANGED usageErrors
    /\ UNCHANGED <<Options, pc, trace, other, contextResult, attached, loadingCalls>>
    /\ UNCHANGED dispatchVars

\* !value of JavaScript
Falsy(value) == value.kind \in {"undefined", "empty"}

\* what errorWrapper(result) of then does for a continuation, as
\* [state, value, called, cb, emits]
errorWrapper(link, result) ==
    IF link.error = "onError"
    THEN [state |-> "fulfilled", value |-> Handled, called |-> "error",
          cb |-> link.cb, emits |-> <<>>]
    ELSE IF link.error = "onlyCallback"
    THEN [state |-> "fulfilled", value |-> result, called |-> "error",
          cb |-> link.cb + 1, emits |-> <<>>]
    ELSE [state |-> "fulfilled", value |-> result, called |-> "none",
          cb |-> link.cb, emits |-> <<Emit("error", "chain", result)>>]

\* what the fulfilment handler of a continuation does with a value
onFulfilled(link, value) ==
    IF link.success = "onSuccess"
    THEN [state |-> "fulfilled", value |-> value, called |-> "success",
          cb |-> link.cb, emits |-> <<>>]
    ELSE IF link.success = "onlyCallback"
    THEN [state |-> "fulfilled", value |-> value, called |-> "success",
          cb |-> link.cb + 1, emits |-> <<>>]
    ELSE IF link.success = "mergeCb"
    THEN [state |-> "waiting", value |-> Undefined, called |-> "success",
          cb |-> link.cb, emits |-> <<>>]
    ELSE IF link.success = "onSuccessEmpty"
    THEN [state |-> "fulfilled", value |-> Empty, called |-> "success",
          cb |-> link.cb, emits |-> <<>>]
    ELSE [state |-> "fulfilled", value |-> value, called |-> "none",
          cb |-> link.cb, emits |-> <<>>]

\* what the rejection handler of a continuation does with a reason
onRejected(link, reason) ==
    IF link.via = "then" THEN errorWrapper(link, reason)
    ELSE IF link.error = "onError"
    THEN [state |-> "fulfilled", value |-> Handled, called |-> "error",
          cb |-> link.cb, emits |-> <<>>]
    ELSE [state |-> "rejected", value |-> reason, called |-> "none",
          cb |-> link.cb, emits |-> <<>>]

\* the reaction job of continuation i runs: its predecessor has settled
React(i) ==
    /\ i \in 1..Len(chain)
    /\ chain[i].state = "pending"
    /\ Settled(Pred(i))
    /\ LET link == chain[i]
           pred == Pred(i)
           out == IF pred.state = "fulfilled" THEN onFulfilled(link, pred.value)
                  ELSE onRejected(link, pred.value)
           merging == pred.state = "fulfilled" /\ link.success = "mergeCb"
       IN  /\ chain' = [chain EXCEPT ![i] =
                   [link EXCEPT !.state = out.state, !.value = out.value,
                                !.called = out.called, !.arg = pred.value,
                                !.cb = out.cb]]
           /\ trace' = trace \o out.emits
           \* if (!contextResult.original) contextResult.original = response
           /\ contextResult' =
                 IF merging /\ Falsy(contextResult["original"])
                 THEN [contextResult EXCEPT !["original"] = pred.value]
                 ELSE contextResult
           \* return promise.then((afterResponse) => ...)
           /\ attached' = IF merging
                          THEN [attached EXCEPT ![link.p] = @ + 1]
                          ELSE attached
    /\ UNCHANGED <<Options, pc, other, usageErrors, loadingCalls>>
    /\ UNCHANGED dispatchVars

\* (afterResponse) => { contextResult[name] = afterResponse; return contextResult }
\* runs, or the rejection of the merged promise is adopted
MergeSettle(i) ==
    /\ i \in 1..Len(chain)
    /\ chain[i].state = "waiting"
    /\ Settled(other[chain[i].p])
    /\ LET link == chain[i]
           o == other[link.p]
       IN  IF o.state = "fulfilled"
           THEN /\ contextResult' = [contextResult EXCEPT ![link.name] = o.value]
                /\ chain' = [chain EXCEPT ![i] =
                       [link EXCEPT !.state = "fulfilled", !.value = ContextResultRef]]
           ELSE /\ chain' = [chain EXCEPT ![i] =
                       [link EXCEPT !.state = "rejected", !.value = o.value]]
                /\ UNCHANGED contextResult
    /\ UNCHANGED <<Options, pc, trace, other, attached, usageErrors, loadingCalls>>
    /\ UNCHANGED dispatchVars

\* a promise handed to merge settles
OtherSettles(p, ok) ==
    /\ other[p].state = "pending"
    /\ other' = [other EXCEPT ![p] =
           IF ok THEN [state |-> "fulfilled", value |-> OtherValue(p)]
           ELSE [state |-> "rejected", value |-> OtherReason(p)]]
    /\ UNCHANGED <<Options, pc, trace>>
    /\ UNCHANGED dispatchVars
    /\ UNCHANGED chainVars

\* ------------------------------------------------------------ specification
\* one logical request and every call on its chain; try() with its defaults
Next ==
    \/ \E b \in BOOLEAN : config(b, <<>>)
    \/ any(DefaultUri)
    \/ \E a \in inflight, statusCode \in Statuses : success(a, statusCode)
    \/ \E a \in inflight : fail(a)
    \/ try(1, "undefined")
    \/ \E onError \in {"onError", "undefined"} : then("onSuccess", onError)
    \/ catch
    \/ complete
    \/ showLoading
    \/ \E p \in Others, name \in Names : Len(chain) < MaxChain /\ merge(p, name)
    \/ \E i \in 1..Len(chain) : React(i)
    \/ \E i \in 1..Len(chain) : MergeSettle(i)
    \/ \E p \in Others, ok \in BOOLEAN : OtherSettles(p, ok)

Spec == Init /\ [][Next]_vars

\* a request that succeeds and the merges chained onto it, after a success
\* handler that passes the response on or returns an empty result
NextMerge ==
    \/ any(DefaultUri)
    \/ \E a \in inflight, statusCode \in Statuses : success(a, statusCode)
    \/ \E onSuccess \in {"onSuccess", "onSuccessEmpty"} : then(onSuccess, "undefined")
    \/ \E p \in Others, name \in Names : merge(p, name)
    \/ \E i \in 1..Len(chain) : React(i)
    \/ \E i \in 1..Len(chain) : MergeSettle(i)
    \/ \E p \in Others, ok \in BOOLEAN : OtherSettles(p, ok)

SpecMerge == Init /\ [][NextMerge]_vars

\* the dispatcher alone: one logical request, every try(max, errorAssert)
NextDispatch ==
    \/ \E b \in BOOLEAN : config(b, <<>>)
    \/ any(DefaultUri)
    \/ \E a \in inflight, statusCode \in Statuses : success(a, statusCode)
    \/ \E a \in inflight : fail(a)
    \/ \E max \in 0..MaxTryArg, errorAssert \in AssertArgs : try(max, errorAssert)

SpecDispatch == Init /\ [][NextDispatch]_vars

\* wx.request answers every invocation: one of its success / fail callbacks
\* is delivered for each outstanding attempt
Deliver ==
    \E a \in inflight :
        \/ fail(a)
        \/ \E statusCode \in Statuses : success(a, statusCode)

SpecDispatchFair == SpecDispatch /\ WF_vars(Deliver)

\* the target of every attempt: every uri under every configuration
NextUri ==
    \/ \E b \in BOOLEAN, baseUri \in BaseUris : config(b, baseUri)
    \/ \E uri \in Uris : any(uri)
    \/ \E a \in inflight, statusCode \in Statuses : success(a, statusCode)
    \/ \E a \in inflight : fail(a)
    \/ try(1, "undefined")

SpecUri == Init /\ [][NextUri]_vars

\* ------------------------------------------------------------------ claims
\* number of entries of the trace with the given name
CountEv(name) == Cardinality({i \in 1..Len(trace) : trace[i].ev = name})

\* C1: the executor's resolve or reject is invoked exactly once per logical
\* request: not at all while an attempt is outstanding, once when the final
\* attempt's callback has run, never twice.
C1_SettlesExactlyOnce ==
    /\ resolveCalls + rejectCalls <= 1
    /\ (pc = "called" /\ inflight = {}) <=> (resolveCalls + rejectCalls = 1)
    /\ (resolveCalls = 1) <=> (promise.state = "fulfilled")
    /\ (rejectCalls = 1) <=> (promise.state = "rejected")

\* C1 witness: a request that settled after two retries and try calls
C1_Witness ==
    /\ hostCalls = 3
    /\ tryCalls = 2
    /\ inflight = {}
    /\ resolveCalls + rejectCalls = 1

\* C2: without a try call exactly one attempt is made; with one try call
\* (tryMax = N held constant) at most N + 1 attempts are made; an attempt's
\* callback that does not resolve issues a retry iff useTry and n < tryMax.
C2_AttemptsBounded ==
    /\ [](pc = "called" /\ tryCalls = 0 => hostCalls = 1)
    /\ [](tryCalls <= 1 => hostCalls <= context.tryMax + 1)
    /\ [][\A a \in inflight :
            (a \notin inflight' /\ resolveCalls' = resolveCalls) =>
                ((hostCalls' = hostCalls + 1) <=>
                 (context.useTry /\ a.tryProcess < context.tryMax))]_vars
    /\ [][(pc = "called" /\ hostCalls' # hostCalls) =>
            \E a \in inflight : a \notin inflight' /\ hostCalls' = hostCalls + 1]_vars

\* C2 witness: try(2) called once and the budget of 3 attempts used up
C2_Witness ==
    /\ tryCalls = 1
    /\ context.tryMax = 2
    /\ hostCalls = 3
    /\ inflight = {}

\* C3 (as claimed): once the request has settled, the number of `end`
\* emissions equals the number of invocations of the host primitive.
C3_EndOncePerAttempt ==
    (pc = "called" /\ inflight = {}) => CountEv("end") = hostCalls

\* the trace begins: start, attempt 1, attempt 2, attempt 3 (attempts 1 and 2
\* ended in a host failure that was retried), then attempt 3's host success
\* with status 2xx or 304
FailFailSuccess ==
    /\ Len(trace) >= 5
    /\ trace[1].ev = "start"
    /\ \A k \in 1..3 : trace[k + 1] = Emit("request", "host", Val("attempt", k, k - 1))
    /\ trace[5].ev = "end"
    /\ trace[5].val.kind = "response"
    /\ trace[5].val.code \in {200, 304}

\* C4: with try(2) as the only try call and the default predicate, a host
\* that fails attempts 0 and 1 and succeeds on attempt 2 makes the promise
\* resolve with the third attempt's response and never reject; in general a
\* fulfilled promise holds the response of the last attempt, whose status is
\* 2xx or 304, and no earlier attempt resolved or rejected.
C4_ResolvesWithFirstSuccess ==
    /\ (tryCalls = 1 /\ context.tryMax = 2 /\ context.assert = "defaultAssert"
            /\ FailFailSuccess) =>
           /\ promise = [state |-> "fulfilled", value |-> trace[5].val]
           /\ promise.value.n = 3
           /\ rejectCalls = 0
    /\ promise.state = "fulfilled" =>
           /\ promise.value.kind = "response"
           /\ promise.value.n = hostCalls
           /\ promise.value.code \in {200, 304}
           /\ trace[Len(trace)] = Emit("resolve", "dispatcher", promise.value)
           /\ CountEv("resolve") = 1
           /\ CountEv("reject") = 0

\* C4 witness: the scenario of the claim has run to its end
C4_Witness ==
    /\ tryCalls = 1
    /\ context.tryMax = 2
    /\ context.assert = "defaultAssert"
    /\ FailFailSuccess
    /\ promise.state = "fulfilled"
    /\ promise.value.n = 3

\* C5: start is emitted exactly once per logical request, before the first
\* invocation of the host primitive, and retries do not emit it again.
C5_StartOnceBeforeFirstAttempt ==
    /\ pc = "idle" => trace = <<>>
    /\ pc = "called" =>
           /\ CountEv("start") = 1
           /\ trace[1].ev = "start"
           /\ CountEv("request") = hostCalls
           /\ \A i \in 1..Len(trace) : trace[i].ev = "request" => i > 1

\* C5 witness: a request with two retries behind it
C5_Witness ==
    /\ hostCalls = 3
    /\ CountEv("request") = 3
    /\ CountEv("start") = 1

\* the chain has a then(onSuccess, onError) with a callable onError
HasLocalHandler ==
    \E i \in 1..Len(chain) : chain[i].via = "then" /\ chain[i].error = "onError"

\* C6 (as claimed): no step taken while the chain has a local failure handler
\* emits `error`, and a failure is broadcast on `error` at most once.
C6_ErrorOnlyWithoutLocalHandler ==
    [][/\ HasLocalHandler => CountEv("error")' = CountEv("error")
       /\ CountEv("error")' <= 1]_vars

\* C7 (as claimed): then(onSuccess) without onError, on a promise rejected
\* with E, leaves the chain's promise rejected with E, and onSuccess is not run.
C7_ThenRethrows ==
    \A i \in 1..Len(chain) :
        (/\ chain[i].via = "then"
         /\ chain[i].success = "onSuccess"
         /\ chain[i].error = "undefined"
         /\ Pred(i).state = "rejected"
         /\ chain[i].state # "pending") =>
            /\ chain[i].state = "rejected"
            /\ chain[i].value = Pred(i).value
            /\ chain[i].called = "none"

\* C8 (as claimed): complete(callback) invokes callback exactly once when the
\* chain settles and leaves the settlement as it was, fulfilled or rejected.
C8_CompleteKeepsSettlement ==
    \A i \in 1..Len(chain) :
        (/\ chain[i].success = "onlyCallback"
         /\ ~chain[i].token
         /\ chain[i].state # "pending") =>
            /\ chain[i].cb = 1
            /\ chain[i].state = Pred(i).state
            /\ chain[i].value = Pred(i).value

\* C9 (as claimed): the token Options.loading returns is invoked exactly once
\* after the request settles: never before the request's promise has settled,
\* never twice, and never left uninvoked once the request has settled and the
\* queued reaction jobs have run.
C9_TokenInvokedOnceRequestSettles ==
    \A i \in 1..Len(chain) : chain[i].token =>
        /\ chain[i].cb <= 1
        /\ chain[i].cb = 1 => Settled(promise)
        /\ (Settled(promise) /\ ~MicrotaskPending) => chain[i].cb = 1

\* C9 (amended): Options.loading is invoked once per showLoading call when it
\* is a function, and the token it returns is invoked exactly once: not while
\* the promise showLoading was chained onto (the request's promise when called
\* first) is pending, and without fail once that promise has settled, resolved
\* or rejected, and its reaction job has run.
C9_TokenInvokedOnce ==
    /\ loadingCalls = Cardinality({i \in 1..Len(chain) : chain[i].token})
    /\ ~Options.loading => loadingCalls = 0
    /\ \A i \in 1..Len(chain) : chain[i].token =>
           /\ chain[i].cb <= 1
           /\ chain[i].cb = 1 => Settled(Pred(i)) /\ Settled(promise)
           /\ (Settled(Pred(i)) /\ ~Runnable(i)) => chain[i].cb = 1
           /\ (i = 1 /\ Settled(promise) /\ ~MicrotaskPending) => chain[i].cb = 1

\* C9 witness: the token was invoked after a retried request was rejected
C9_Witness ==
    /\ Len(chain) >= 1
    /\ chain[1].token
    /\ chain[1].cb = 1
    /\ hostCalls = 2
    /\ promise.state = "rejected"

\* C10: merge(p, "original") throws before anything is scheduled: the step
\* that throws leaves the wrapped promise, the accumulator and the merged
\* promise's continuations as they were, and no continuation for the name
\* "original" ever exists.
C10_MergeOriginalThrows ==
    /\ [](\A i \in 1..Len(chain) : chain[i].name # "original")
    /\ [](contextResult["original"].kind \notin {"otherValue", "otherReason"})
    /\ [][usageErrors' # usageErrors =>
            /\ usageErrors' = usageErrors + 1
            /\ chain' = chain
            /\ contextResult' = contextResult
            /\ attached' = attached
            /\ trace' = trace]_vars

\* C10 witness: merge threw on a chain that holds a completed earlier merge
C10_Witness ==
    /\ usageErrors = 1
    /\ Len(chain) >= 1
    /\ chain[1].success = "mergeCb"
    /\ chain[1].state = "fulfilled"
    /\ contextResult["extra"].kind = "otherValue"

\* the first continuation attached by merge
FirstMerge == CHOOSE i \in Merges : \A j \in Merges : i <= j

\* C11 (as claimed): once the first merge has captured the value the chain
\* carried (the response R), key `original` holds it for good, whatever R is
\* and however many merges follow, and a fulfilled merge holds the accumulator
\* with its own key set to the merged promise's value.
C11_MergeKeepsOriginal ==
    /\ (Merges # {} /\ chain[FirstMerge].called = "success") =>
           contextResult["original"] = chain[FirstMerge].arg
    /\ \A i \in Merges : (chain[i].called = "success" /\ chain[i].state = "fulfilled") =>
           /\ chain[i].value = ContextResultRef
           /\ contextResult[chain[i].name] = OtherValue(chain[i].p)

\* C12 (as claimed): a try call whose predicate is supplied but not callable
\* leaves context.assert at the default predicate, whatever it was before,
\* and does not change the retry policy.
C12_InvalidPredicateRejected ==
    [][\A max \in 0..MaxTryArg : try(max, "notCallable") =>
          /\ context'.assert = "defaultAssert"
          /\ context'.useTry = context.useTry
          /\ context'.tryMax = context.tryMax]_vars

\* C12 (amended): a try call whose predicate is supplied but not callable
\* ignores the predicate: context.assert keeps the value it had before the
\* call, which is the default until a try call installs a callable one, and
\* the call still sets useTry and tryMax.
C12_InvalidPredicateIgnored ==
    /\ [](tryCalls = 0 => context.assert = "defaultAssert")
    /\ [](context.assert \in {"defaultAssert", "notStatus200"})
    /\ [][\A max \in 0..MaxTryArg : try(max, "notCallable") =>
            /\ context'.assert = context.assert
            /\ context'.useTry
            /\ context'.tryMax = max]_vars

\* C12 witness: two try calls have run and a callable predicate installed by
\* one of them is in force
C12_Witness ==
    /\ tryCalls = 2
    /\ context.assert = "notStatus200"
    /\ context.tryMax = 0

\* C13: the step of a host-success callback with response r resolves the
\* promise with r iff (200 <= status < 300 or status = 304) and not (useTry
\* and the predicate holds of r); otherwise it issues a retry when useTry and
\* the attempt index is below tryMax, and else rejects with r.
C13_Classification ==
    [][\A a \in inflight :
          (/\ a \notin inflight'
           /\ Len(trace') > Len(trace)
           /\ trace'[Len(trace) + 1].val.kind = "response") =>
             LET r == trace'[Len(trace) + 1].val
                 inRange == (r.code >= 200 /\ r.code < 300) \/ r.code = 304
                 flagged == /\ context.useTry
                            /\ context.assert = "notStatus200"
                            /\ r.code # 200
                 ok == inRange /\ ~flagged
             IN  /\ r.n = a.id
                 /\ ok <=> /\ promise' = [state |-> "fulfilled", value |-> r]
                           /\ resolveCalls' = resolveCalls + 1
                 /\ ~ok =>
                       IF context.useTry /\ a.tryProcess < context.tryMax
                       THEN /\ hostCalls' = hostCalls + 1
                            /\ promise' = promise
                            /\ rejectCalls' = rejectCalls
                       ELSE /\ hostCalls' = hostCalls
                            /\ promise' = [state |-> "rejected", value |-> r]
                            /\ rejectCalls' = rejectCalls + 1]_vars

\* C13 witness: status 304 resolved a request on which try was never called
C13_Witness ==
    /\ tryCalls = 0
    /\ promise.state = "fulfilled"
    /\ promise.value.code = 304

\* the uri begins with a scheme prefix
Absolute(uri) == Len(uri) >= 1 /\ uri[1] \in {"https:", "http:"}

\* C14 (as claimed): the target of every attempt is the request uri when the
\* uri begins with http: or https:, and baseUri followed by the uri when it
\* has no scheme prefix, wherever else http: or https: occurs in it.
C14_BaseUriForRelative ==
    \A a \in inflight :
        a.url = IF Absolute(context.uri)
                THEN context.uri
                ELSE Options.baseUri \o context.uri

\* C15: retries are sequential: at most one attempt of the request is
\* outstanding in every reachable state, and attempt n+1 is issued only by
\* the step that delivers the callback of attempt n, the latest attempt.
C15_RetriesSequential ==
    /\ [](Cardinality(inflight) <= 1)
    /\ [][(pc = "called" /\ hostCalls' # hostCalls) =>
            \E a \in inflight :
                /\ a.id = hostCalls
                /\ a \notin inflight'
                /\ hostCalls' = hostCalls + 1
                /\ \E b \in inflight' :
                       /\ inflight' = {b}
                       /\ b.id = a.id + 1
                       /\ b.tryProcess = a.tryProcess + 1]_vars

\* C15 witness: the third attempt is the only one outstanding
C15_Witness ==
    /\ Cardinality(inflight) = 1
    /\ \E a \in inflight : a.id = 3 /\ a.tryProcess = 2

\* C16: when the host answers every invocation, every dispatched request
\* eventually settles, resolved or rejected, and stays settled; it makes no
\* more attempts than the largest retry budget allows, whatever the outcomes
\* and the predicate's results.
C16_EventuallySettles ==
    /\ (pc = "called") ~> Settled(promise)
    /\ [][Settled(promise) => promise' = promise]_vars
    /\ [](hostCalls <= MaxTryArg + 1)

\* C16 witness: the predicate flagged every response until the budget of
\* two retries was used up, and the request was rejected
C16_Witness ==
    /\ context.assert = "notStatus200"
    /\ hostCalls = MaxTryArg + 1
    /\ promise.state = "rejected"
    /\ promise.value.kind = "response"

\* C17 (as claimed): in every reachable state the attempt counter of the
\* outstanding attempt is at most tryMax of the shared context, also when
\* try is called again with a smaller max while an attempt is in flight.
C17_CounterWithinTryMax ==
    \A a \in inflight : a.tryProcess <= context.tryMax

\* C17 (amended): the attempt counter starts at 0 and increases by exactly 1
\* on each retry taken; a retry is taken only while the counter is below the
\* tryMax then in force, so the new counter is at most that tryMax; and
\* tryProcess <= tryMax is kept by every step that does not lower tryMax.
C17_CounterStepsWithinBudget ==
    /\ [][pc = "idle" /\ pc' = "called" =>
            \A a \in inflight' : a.tryProcess = 0]_vars
    /\ [][pc = "called" =>
            \A b \in inflight' \ inflight :
                \E a \in inflight :
                    /\ a \notin inflight'
                    /\ b.tryProcess = a.tryProcess + 1
                    /\ b.tryProcess <= context.tryMax]_vars
    /\ [][(C17_CounterWithinTryMax /\ context'.tryMax >= context.tryMax) =>
            C17_CounterWithinTryMax']_vars
    /\ [](\A a \in inflight : a.tryProcess = a.id - 1)

\* C17 witness: try(1), a failed attempt retried, then try(0) while the
\* second attempt is in flight: its counter 1 exceeds tryMax 0
C17_Witness ==
    /\ tryCalls = 2
    /\ context.tryMax = 0
    /\ \E a \in inflight : a.tryProcess = 1

\* what one step appends to the trace
NewTrace == SubSeq(trace', Len(trace) + 1, Len(trace'))

\* C18: a host-success callback emits end and then response, both with the
\* raw response, whatever the classification, and before a retry attempt is
\* issued or the promise is settled; a terminal host failure emits end, then
\* error, and only then rejects; no attempt's response or error comes before
\* its end.
C18_EventOrder ==
    [][\A a \in inflight : a \notin inflight' =>
          LET new == NewTrace
              hostFailed == \A i \in 1..Len(new) : new[i].val.kind # "response"
              retried == hostCalls' > hostCalls
          IN  /\ (hostFailed /\ ~retried) =>
                     new = <<Emit("end", "dispatcher", HostError(a.id)),
                             Emit("error", "dispatcher", HostError(a.id)),
                             Emit("reject", "dispatcher", HostError(a.id))>>
              /\ ~hostFailed =>
                     /\ Len(new) >= 3
                     /\ new[1].ev = "end"
                     /\ new[2].ev = "response"
                     /\ new[1].val = new[2].val
                     /\ new[1].val.kind = "response"
                     /\ new[1].val.n = a.id
                     /\ new[3].ev \in {"request", "resolve", "reject"}
                     /\ (new[3].ev = "request") <=> retried
                     /\ \A i \in 3..Len(new) : new[i].ev \notin {"end", "response"}
              /\ \A i \in 1..Len(new) :
                     new[i].ev \in {"response", "error"} =>
                         \E j \in 1..(i - 1) : new[j].ev = "end"]_vars

\* C18 witness: a response answered by a retry, then a terminal host failure
C18_Witness ==
    /\ CountEv("response") = 1
    /\ CountEv("end") = 2
    /\ promise.state = "rejected"
    /\ promise.value = HostError(2)

\* C19: the dispatcher emits error exactly when it rejects the promise: the
\* number of error events equals the number of reject calls and is at most
\* one; the event carries the value the promise was rejected with and belongs
\* to the final attempt; a callback that issues a retry emits no error, and
\* a resolved request has none.
C19_ErrorIffReject ==
    /\ [](CountEv("error") = rejectCalls)
    /\ [](CountEv("error") <= 1)
    /\ [](\A i \in 1..Len(trace) : trace[i].ev = "error" =>
              /\ trace[i].by = "dispatcher"
              /\ promise.state = "rejected"
              /\ trace[i].val = promise.value
              /\ trace[i].val.n = hostCalls
              /\ inflight = {})
    /\ [](promise.state = "fulfilled" => CountEv("error") = 0)
    /\ [][(pc = "called" /\ hostCalls' > hostCalls) =>
            CountEv("error")' = CountEv("error")]_vars
    /\ [][rejectCalls' > rejectCalls =>
            CountEv("error")' = CountEv("error") + 1]_vars

\* C19 witness: the first attempt's response was answered by a retry, the
\* second attempt's response was rejected, and one error was emitted
C19_Witness ==
    /\ CountEv("error") = 1
    /\ CountEv("response") = 2
    /\ hostCalls = 2
    /\ promise.state = "rejected"

\* C20: the retry decision of an attempt's callback reads the shared context
\* as it is when the callback runs, so a try call made while the attempt is
\* in flight takes effect; once the promise is resolved or rejected nothing
\* is outstanding, and no step, try calls included, invokes the host
\* primitive, emits a dispatcher event or changes the settlement.
C20_NoEffectAfterSettlement ==
    /\ [](Settled(promise) => inflight = {})
    /\ [][Settled(promise) =>
            /\ hostCalls' = hostCalls
            /\ inflight' = inflight
            /\ trace' = trace
            /\ promise' = promise
            /\ resolveCalls' = resolveCalls
            /\ rejectCalls' = rejectCalls]_vars
    /\ [][\A a \in inflight : a \notin inflight' =>
            /\ hostCalls' > hostCalls =>
                   (context.useTry /\ a.tryProcess < context.tryMax)
            /\ (context.useTry /\ a.tryProcess < context.tryMax
                    /\ promise'.state # "fulfilled") =>
                   hostCalls' = hostCalls + 1]_vars
    /\ [][(\E a \in inflight : TRUE) /\ tryCalls' > tryCalls =>
            /\ inflight' = inflight
            /\ context'.useTry
            /\ \E max \in 0..MaxTryArg : context'.tryMax = max]_vars

\* C20 witness: the only attempt was rejected with no retry, and a try call
\* made afterwards left a budget of two retries unused
C20_Witness ==
    /\ promise.state = "rejected"
    /\ hostCalls = 1
    /\ inflight = {}
    /\ context.useTry
    /\ context.tryMax = 2

====
